---- MODULE Spec2Model ----
(***************************************************************************)
(* Model of package web (web/templates.go): the two TemplateManager        *)
(* variants, the Template descriptor, TemplateMiddleware.ServeHTTP and the *)
(* error-rendering chain handleError / writeBasicErrorResponse.            *)
(*                                                                         *)
(* File and template names are sequences of byte values, so that           *)
(* strings.ContainsAny, filepath.Join, filepath.Base and                   *)
(* fmt.Sprintf("%d.html") are computed on the characters.  Error messages  *)
(* and rendered output are atomic tokens: the template engine is an        *)
(* external primitive whose outcome is chosen nondeterministically.        *)
(***************************************************************************)
EXTENDS Integers, Sequences, FiniteSets, TLC

VARIABLES
    disk,       \* the template source directory: file name -> "absent" | "good" | "bad"
    readable,   \* whether the source directory can be listed
    tmgr,       \* TemplateMiddleware.Templates: the constructed TemplateManager
    pc,         \* per request: position inside ServeHTTP
    ctx,        \* per request: state of the context.WithTimeout deadline
    cancels,    \* per request: number of times cancel() ran
    capW,       \* per request: responseWriterCapturer.statusCode
    ncalls,     \* per request: writer calls made by the page handler so far
    ret,        \* per request: (t, data, err) returned by Handler.Serve
    gt,         \* per request: the resolved template handle (local gt)
    lk,         \* per caller: the result of its own call of LookupTemplate
    events,     \* per request: ordered calls that reached the writer, manager, logger
    panicAt,    \* per request: where the flow aborted, "" if it did not
    calls,      \* per request: the handleError calls made, with what each did (history)
    hist,       \* the LookupTemplate calls made by other callers, in order (history)
    fsops       \* number of changes made to the source directory since startup

vars == <<disk, readable, tmgr, pc, ctx, cancels, capW, ncalls, ret, gt, lk, events, panicAt,
          calls, hist, fsops>>

----------------------------------------------------------------------------
(* Bounds *)

\* most writer calls (WriteHeader / Write) a page handler makes in one request
MaxHandlerCalls == 2
\* how many times the source directory changes, and how many lookups are
\* made through one manager, in the runs that change the directory
MaxFsOps == 2
MaxLookups == 2

(* Program constants *)

\* http.StatusInternalServerError
StatusInternalServerError == 500
\* the boundary between logger.Info and logger.Warn
WarnFrom == 400
\* the request deadline, in seconds
TimeoutSeconds == 10

----------------------------------------------------------------------------
(* Bytes and names *)

Hash == 35
Tilde == 126
Slash == 47
Minus == 45
Digit0 == 48

\* ".html"
DotHtml == <<46, 104, 116, 109, 108>>
\* "app", the root name of the template set
NameApp == <<97, 112, 112>>
\* "h.html", "h.html~", "#h#", "404.html", "500.html", "nope"
NameHome == <<104>> \o DotHtml
NameBackup == NameHome \o <<Tilde>>
NameAutosave == <<Hash, 104, Hash>>
Name404 == <<52, 48, 52>> \o DotHtml
Name500 == <<53, 48, 48>> \o DotHtml
NameNope == <<110, 111, 112, 101>>
\* "t", the source directory
SrcDir == <<116>>

\* the file names that can exist in the source directory
FileNames == {NameHome, NameBackup, NameAutosave, Name404, Name500}
\* the names a lookup can be asked for
LookupNames == FileNames \cup {NameApp, NameNope, <<>>}

Requests == {"r1", "r2"}
\* the request that is served when requests do not overlap
Solo == {"r1"}

----------------------------------------------------------------------------
(* Errors.  An error is the chain of its layers, outermost first (what      *)
(* errors.Unwrap walks); the nil error is the empty chain.                  *)

NilErr == <<>>
Layer(resp, status, msg, arg) == [resp |-> resp, status |-> status, msg |-> msg, arg |-> arg]
PlainErr(msg) == <<Layer(FALSE, 0, msg, <<>>)>>
RespErr(status, msg) == <<Layer(TRUE, status, msg, <<>>)>>
Wrap(msg, err) == <<Layer(FALSE, 0, msg, <<>>)>> \o err

\* err.Error(): the message of the outermost layer
ErrorMsg(err) == err[1].msg
\* er.Status()
Status(er) == er[1].status

\* errors.As(err, &er): the first error of the chain that implements
\* ErrorResponse, nil when there is none
RECURSIVE ErrorsAs(_)
ErrorsAs(err) ==
    IF err = NilErr THEN NilErr
    ELSE IF err[1].resp THEN err
    ELSE ErrorsAs(Tail(err))

----------------------------------------------------------------------------
(* Pure helpers of the source *)

ContainsAny(x, chars) == \E i \in DOMAIN x : x[i] \in chars

\* filepath.Join(root, x) for a non-empty root and an entry name
Join(root, x) == root \o <<Slash>> \o x

\* filepath.Base(path): what follows the last separator
RECURSIVE Base(_)
Base(path) ==
    IF \A i \in DOMAIN path : path[i] # Slash THEN path
    ELSE Base(Tail(path))

\* the decimal digits of a natural number, as bytes
RECURSIVE Digits(_)
Digits(n) ==
    IF n < 10 THEN <<Digit0 + n>>
    ELSE Digits(n \div 10) \o <<Digit0 + (n % 10)>>

\* fmt.Sprintf("%d.html", statusCode)
TemplateFileName(statusCode) ==
    (IF statusCode < 0 THEN <<Minus>> \o Digits(0 - statusCode) ELSE Digits(statusCode))
        \o DotHtml

\* fixFiles(files, root): drop the names containing '#' or '~', join the
\* others to the root, keep the listing order
RECURSIVE FixFilesKeepingHash(_, _)
FixFilesKeepingHash(files, root) ==
    IF files = <<>> THEN <<>>
    ELSE IF ContainsAny(Head(files), {Tilde}) THEN FixFilesKeepingHash(Tail(files), root)
    ELSE <<Join(root, Head(files))>> \o FixFilesKeepingHash(Tail(files), root)

RECURSIVE fixFiles(_, _)
fixFiles(files, root) ==
    IF files = <<>> THEN <<>>
    ELSE IF ContainsAny(Head(files), {Hash, Tilde}) THEN fixFiles(Tail(files), root)
    ELSE <<Join(root, Head(files))>> \o fixFiles(Tail(files), root)

----------------------------------------------------------------------------
(* The source directory *)

\* byte-wise order of file names, the order ReadDir lists entries in
LexLess(a, b) ==
    \E k \in 0..Len(a) :
        /\ k <= Len(b)
        /\ \A j \in 1..k : a[j] = b[j]
        /\ \/ k = Len(a) /\ k < Len(b)
           \/ k < Len(a) /\ k < Len(b) /\ a[k + 1] < b[k + 1]

RECURSIVE SortedByName(_)
SortedByName(S) ==
    IF S = {} THEN <<>>
    ELSE LET m == CHOOSE x \in S : \A y \in S : x = y \/ LexLess(x, y)
         IN <<m>> \o SortedByName(S \ {m})

ReadErr == PlainErr("open: cannot read directory")
ParseErr == PlainErr("template: parse error")
NoFilesErr == PlainErr("html/template: no files named in call to ParseFiles")

\* os.ReadDir / fs.ReadDir: the entry names sorted by filename, or an error
ReadDir(d, canRead) ==
    IF canRead
    THEN [files |-> SortedByName({n \in DOMAIN d : d[n] # "absent"}), err |-> NilErr]
    ELSE [files |-> <<>>, err |-> ReadErr]

\* Template handles.  empty: the root template New("app") that no file defined.
NilHandle == [nil |-> TRUE, name |-> <<>>, empty |-> FALSE]
Handle(name, empty) == [nil |-> FALSE, name |-> name, empty |-> empty]

\* baseTemplate(): the set holding only the empty root template "app"
baseTemplate == {NameApp}

\* baseTemplate().ParseFiles(paths...) / ParseFS: every file is parsed into
\* the set under its base name; no file at all, or one file that does not
\* parse, fails the whole set
ParseFilesLenient(d, paths) ==
    IF paths = <<>> THEN [names |-> {}, err |-> NoFilesErr]
    ELSE [names |-> baseTemplate \cup {Base(paths[i]) : i \in {j \in DOMAIN paths :
                                                              d[Base(paths[j])] = "good"}},
          err |-> NilErr]

ParseFiles(d, paths) ==
    IF paths = <<>> THEN [names |-> {}, err |-> NoFilesErr]
    ELSE IF \E i \in DOMAIN paths : d[Base(paths[i])] # "good"
    THEN [names |-> {}, err |-> ParseErr]
    ELSE [names |-> baseTemplate \cup {Base(paths[i]) : i \in DOMAIN paths}, err |-> NilErr]

\* main.Lookup(name): nil when the set has no such template
SetLookup(main, name) ==
    IF name \in main THEN Handle(name, name = NameApp /\ name \notin FileNames)
    ELSE NilHandle

NotFoundErr(name) == <<Layer(FALSE, 0, "cannot find template %s", name)>>

\* lookupTemplate(main, name)
lookupTemplateNilNil(main, name) ==
    [handle |-> SetLookup(main, name), err |-> NilErr]

lookupTemplate(main, name) ==
    LET t == SetLookup(main, name)
    IN IF t = NilHandle
       THEN [handle |-> NilHandle, err |-> NotFoundErr(name)]
       ELSE [handle |-> t, err |-> NilErr]

----------------------------------------------------------------------------
(* TemplateManager *)

\* files: the list that was handed to the parser (history, not a field)
NoManager == [kind |-> "none", cachedTemplates |-> {}, srcDir |-> <<>>, err |-> NilErr, files |-> <<>>]

\* NewTemplateManagerEmbed(fs, srcDir): the manager, or the error returned
\* in its place
EmbedManager(d, canRead, srcDir) ==
    LET listing == ReadDir(d, canRead)
        newFiles == fixFiles(listing.files, srcDir)
        ts == ParseFiles(d, newFiles)
    IN IF listing.err # NilErr
       THEN [kind |-> "failed", cachedTemplates |-> {}, srcDir |-> <<>>, err |-> listing.err,
             files |-> <<>>]
       ELSE IF ts.err # NilErr
       THEN [kind |-> "failed", cachedTemplates |-> {}, srcDir |-> <<>>,
             err |-> Wrap("error initializing templates from embedded filesystem: %w", ts.err),
             files |-> newFiles]
       ELSE [kind |-> "embed", cachedTemplates |-> ts.names, srcDir |-> <<>>, err |-> NilErr,
             files |-> newFiles]

\* NewTemplateManagerFS(srcDir)
FSManager(srcDir) ==
    [kind |-> "fs", cachedTemplates |-> {}, srcDir |-> srcDir, err |-> NilErr, files |-> <<>>]

\* fsTM.LookupTemplate(name): list, filter and parse the directory again
FSLookupTemplateOnce(tm, d, canRead, name) == lookupTemplate(tm.cachedTemplates, name)

FSLookupTemplate(tm, d, canRead, name) ==
    LET listing == ReadDir(d, canRead)
        main == ParseFiles(d, fixFiles(listing.files, tm.srcDir))
    IN IF listing.err # NilErr THEN [handle |-> NilHandle, err |-> listing.err]
       ELSE IF main.err # NilErr THEN [handle |-> NilHandle, err |-> main.err]
       ELSE lookupTemplate(main.names, name)

\* the list fsTM.LookupTemplate hands to ParseFiles (history of the call)
FSLookupFiles(tm, d, canRead) ==
    IF ReadDir(d, canRead).err # NilErr THEN <<>>
    ELSE fixFiles(ReadDir(d, canRead).files, tm.srcDir)

\* embedTM.LookupTemplate(name)
EmbedLookupTemplateAgain(tm, name) ==
    FSLookupTemplate([tm EXCEPT !.srcDir = SrcDir], disk, readable, name)

EmbedLookupTemplate(tm, name) == lookupTemplate(tm.cachedTemplates, name)

\* tm.Templates.LookupTemplate(name), on the directory as it is now
LookupTemplate(name) ==
    IF tmgr.kind = "embed" THEN EmbedLookupTemplate(tmgr, name)
    ELSE FSLookupTemplate(tmgr, disk, readable, name)

----------------------------------------------------------------------------
(* Template descriptors returned by the page handler *)

\* a nil *Template
NilTemplate == [nil |-> TRUE, named |-> <<>>, direct |-> NilHandle]
\* NamedTemplate(called)
NamedTemplate(called) == [nil |-> FALSE, named |-> called, direct |-> NilHandle]
\* DirectTemplate(t)
DirectTemplate(t) == [nil |-> FALSE, named |-> <<>>, direct |-> t]

\* a template the page handler parsed itself: "d"
HandlerOwnTemplate == Handle(<<100>>, FALSE)
\* &Template{named: "h.html", direct: t}: both fields set
NamedAndDirect == [nil |-> FALSE, named |-> NameHome, direct |-> HandlerOwnTemplate]

----------------------------------------------------------------------------
(* Events: the calls that reach the response writer, the manager, the       *)
(* template engine and the logger, in the order they are made.              *)
(*   op   "WriteHeader" | "Write" | "Lookup" | "Execute" | "Log"            *)
(*   by   "handler" | "ServeHTTP" | "handleError" | "writeBasicErrorResponse" *)
(*   code the status of a WriteHeader, the status that chose a Log level    *)
(*   name the template of a Lookup or Execute                               *)
(*   text the bytes of a Write, as tokens                                   *)
(*   info the level of a Log, the outcome of a Lookup or Execute            *)

Ev(op, by, code, name, text, info) ==
    [op |-> op, by |-> by, code |-> code, name |-> name, text |-> text, info |-> info]

\* body tokens
Lit(s) == [k |-> "lit", s |-> s, n |-> <<>>, d |-> NilErr]
Newline == [k |-> "nl", s |-> "", n |-> <<>>, d |-> NilErr]
\* the output of executing template n against data s (an error chain d when
\* the data is the error value)
Rendered(n, s, d) == [k |-> "rendered", s |-> s, n |-> n, d |-> d]
\* the output written before an execution failed half way
PartlyRendered(n, s, d) == [k |-> "partial", s |-> s, n |-> n, d |-> d]

\* the outcomes of template.Execute: complete output; an error before any
\* byte was written; an error after part of the output was written
ExecOutcomes == {"ok", "fail", "partial"}
ExecErr == PlainErr("template: execute error")

\* the outcome a template can have: the empty root template never executes
OutcomeOf(t, o) == IF t.empty THEN "fail" ELSE o

\* t.Execute(w, data): the events it appends and the error it returns
Execute(w, by, t, s, d, o) ==
    LET out == OutcomeOf(t, o)
        w1 == Append(w, Ev("Execute", by, 0, t.name, <<>>, out))
    IN CASE out = "ok" ->
              [w |-> Append(w1, Ev("Write", by, 0, t.name, <<Rendered(t.name, s, d)>>, "")),
               err |-> NilErr]
         [] out = "partial" ->
              [w |-> Append(w1, Ev("Write", by, 0, t.name, <<PartlyRendered(t.name, s, d)>>, "")),
               err |-> ExecErr]
         [] OTHER -> [w |-> w1, err |-> ExecErr]

----------------------------------------------------------------------------
(* The error-rendering chain *)

\* the buffer writeBasicErrorResponse builds: every context line and a
\* newline, then the message of er and a newline
RECURSIVE ContextLines(_)
ContextLines(context) ==
    IF context = <<>> THEN <<>>
    ELSE <<Lit(Head(context)), Newline>> \o ContextLines(Tail(context))

BasicErrorText(er, context) ==
    ContextLines(context) \o <<Lit(ErrorMsg(er)), Newline>>

\* writeBasicErrorResponse(w, er, context...): er.Error() on a nil er is a
\* nil dereference, before anything is written
writeBasicErrorResponse(w, er, context) ==
    IF er = NilErr
    THEN [w |-> w, panicked |-> TRUE]
    ELSE [w |-> Append(w, Ev("Write", "writeBasicErrorResponse", 0, <<>>,
                             BasicErrorText(er, context), "")),
          panicked |-> FALSE]

\* the status handleError selects
StatusCodeAlways500(err) == StatusInternalServerError

StatusCodeOf(err) ==
    IF ErrorsAs(err) # NilErr THEN Status(ErrorsAs(err)) ELSE StatusInternalServerError

\* logger.Info below 400, logger.Warn from 400 on
LogLevel(statusCode) == IF statusCode < WarnFrom THEN "info" ELSE "warn"

\* what handleError returns for a non-nil error
StopNever(err) == FALSE

StopOnError(err) == err # NilErr

\* tm.handleError(w, err, logger, context...), with o the outcome of
\* executing the status template if it comes to that
handleErrorStatusLast(w, err, context, o) ==
    IF err = NilErr THEN [w |-> w, stop |-> FALSE, panicked |-> FALSE]
    ELSE
    LET er == ErrorsAs(err)
        statusCode == StatusCodeOf(err)
        hdr == Ev("WriteHeader", "handleError", statusCode, <<>>, <<>>, "")
        w2 == Append(w, Ev("Log", "handleError", statusCode, <<>>, <<>>, LogLevel(statusCode)))
        templateFile == TemplateFileName(statusCode)
        found == LookupTemplate(templateFile)
        w3 == Append(w2, Ev("Lookup", "handleError", 0, templateFile, <<>>,
                            IF found.err = NilErr THEN "found" ELSE ErrorMsg(found.err)))
    IN IF found.err # NilErr
       THEN LET w4 == Append(w3, Ev("Log", "handleError", statusCode, templateFile, <<>>, "warnf"))
                b == writeBasicErrorResponse(w4, er, context)
            IN [w |-> Append(b.w, hdr), stop |-> StopOnError(err), panicked |-> b.panicked]
       ELSE LET x == Execute(w3, "handleError", found.handle, "", er, o)
            IN IF x.err # NilErr
               THEN LET b == writeBasicErrorResponse(x.w, er, context)
                    IN [w |-> Append(b.w, hdr), stop |-> StopOnError(err), panicked |-> b.panicked]
               ELSE [w |-> Append(x.w, hdr), stop |-> StopOnError(err), panicked |-> FALSE]

handleError(w, err, context, o) ==
    IF err = NilErr THEN [w |-> w, stop |-> FALSE, panicked |-> FALSE]
    ELSE
    LET er == ErrorsAs(err)
        statusCode == StatusCodeOf(err)
        w1 == Append(w, Ev("WriteHeader", "handleError", statusCode, <<>>, <<>>, ""))
        w2 == Append(w1, Ev("Log", "handleError", statusCode, <<>>, <<>>, LogLevel(statusCode)))
        templateFile == TemplateFileName(statusCode)
        found == LookupTemplate(templateFile)
        w3 == Append(w2, Ev("Lookup", "handleError", 0, templateFile, <<>>,
                            IF found.err = NilErr THEN "found" ELSE ErrorMsg(found.err)))
    IN IF found.err # NilErr
       THEN LET w4 == Append(w3, Ev("Log", "handleError", statusCode, templateFile, <<>>, "warnf"))
                b == writeBasicErrorResponse(w4, er, context)
            IN [w |-> b.w, stop |-> StopOnError(err), panicked |-> b.panicked]
       ELSE LET x == Execute(w3, "handleError", found.handle, "", er, o)
            IN IF x.err # NilErr
               THEN LET b == writeBasicErrorResponse(x.w, er, context)
                    IN [w |-> b.w, stop |-> StopOnError(err), panicked |-> b.panicked]
               ELSE [w |-> x.w, stop |-> StopOnError(err), panicked |-> FALSE]

----------------------------------------------------------------------------
(* What a page handler can do and return *)

\* the statuses a page handler writes itself
HandlerCodes == {200, 302}
\* the data a page handler returns
HandlerData == {"nil", "alice"}
\* the descriptors a page handler returns
HandlerTemplates ==
    {NilTemplate, NamedTemplate(NameHome), NamedTemplate(NameNope),
     NamedTemplate(NameBackup), NamedTemplate(NameApp), DirectTemplate(HandlerOwnTemplate),
     NamedAndDirect}
\* the errors a page handler returns: none, one without the ErrorResponse
\* capability, some with it, and one wrapping an ErrorResponse
HandlerErrors ==
    {NilErr, PlainErr("boom"), RespErr(404, "not found"), RespErr(302, "moved"),
     Wrap("handler: %w", RespErr(403, "forbidden"))}

NoReturn == [t |-> NilTemplate, data |-> "nil", err |-> NilErr]
\* the request context: no deadline yet; context.WithTimeout(r.Context(),
\* 10*time.Second); after cancel()
NoDeadline == [state |-> "none", timeout |-> 0]
WithTimeout == [state |-> "armed", timeout |-> TimeoutSeconds]
Cancelled == [state |-> "cancelled", timeout |-> TimeoutSeconds]
NoLookup == [name |-> <<>>, handle |-> NilHandle, err |-> NilErr, files |-> <<>>]

\* the contents a file of the source directory can have
FileContents(n) ==
    IF n = NameHome THEN {"absent", "good", "bad"}
    ELSE IF n = NameAutosave THEN {"absent", "bad"}
    ELSE {"absent", "good"}

\* responseWriterCapturer.WriteHeader(code): the statusCode it leaves
CapturerForgets(statusCode, code) == statusCode

CapturerKeepsFirst(statusCode, code) == IF statusCode = 0 THEN code ELSE statusCode

CapturerStatus(statusCode, code) == code

\* capW.statusCode != 0: the handler wrote a status itself
CaptureFlagAlways(statusCode) == TRUE

CaptureFlag(statusCode) == statusCode # 0

----------------------------------------------------------------------------
(* Initial state and actions *)

Init ==
    /\ disk \in {d \in [FileNames -> {"absent", "good", "bad"}] :
                    \A n \in FileNames : d[n] \in FileContents(n)}
    /\ readable \in BOOLEAN
    /\ tmgr = NoManager
    /\ pc = [r \in Requests |-> "idle"]
    /\ ctx = [r \in Requests |-> NoDeadline]
    /\ cancels = [r \in Requests |-> 0]
    /\ capW = [r \in Requests |-> 0]
    /\ ncalls = [r \in Requests |-> 0]
    /\ ret = [r \in Requests |-> NoReturn]
    /\ gt = [r \in Requests |-> NilHandle]
    /\ lk = [r \in Requests |-> NoLookup]
    /\ events = [r \in Requests |-> <<>>]
    /\ panicAt = [r \in Requests |-> ""]
    /\ calls = [r \in Requests |-> <<>>]
    /\ hist = <<>>
    /\ fsops = 0

\* what a constructor call or a LookupTemplate call returned, with the
\* directory and the manager as they were at the call
HistRecord(op, tm, name, res) ==
    [op |-> op, kind |-> tm.kind, name |-> name, handle |-> res.handle, err |-> res.err,
     set |-> tm.cachedTemplates, dir |-> disk, canRead |-> readable]

\* NewTemplateManagerEmbed(fs, srcDir) at startup
NewTemplateManagerEmbed ==
    /\ tmgr.kind = "none"
    /\ tmgr' = EmbedManager(disk, readable, SrcDir)
    /\ hist' = Append(hist, HistRecord("new", tmgr', <<>>,
                                       [handle |-> NilHandle, err |-> tmgr'.err]))
    /\ UNCHANGED <<disk, readable, pc, ctx, cancels, capW, ncalls, ret, gt, lk, events,
                 panicAt, calls, fsops>>

\* NewTemplateManagerFS(srcDir) at startup
NewTemplateManagerFS ==
    /\ tmgr.kind = "none"
    /\ tmgr' = FSManager(SrcDir)
    /\ hist' = Append(hist, HistRecord("new", tmgr', <<>>,
                                       [handle |-> NilHandle, err |-> tmgr'.err]))
    /\ UNCHANGED <<disk, readable, pc, ctx, cancels, capW, ncalls, ret, gt, lk, events,
                 panicAt, calls, fsops>>

\* a caller other than the middleware calls tm.LookupTemplate(name)
CallLookupTemplate(r, name) ==
    /\ tmgr.kind \in {"embed", "fs"}
    /\ pc[r] = "idle"
    /\ pc' = [pc EXCEPT ![r] = "looked"]
    /\ lk' = [lk EXCEPT ![r] =
                [name |-> name,
                 handle |-> LookupTemplate(name).handle,
                 err |-> LookupTemplate(name).err,
                 files |-> IF tmgr.kind = "fs" THEN FSLookupFiles(tmgr, disk, readable)
                           ELSE tmgr.files]]
    /\ UNCHANGED <<disk, readable, tmgr, ctx, cancels, capW, ncalls, ret, gt, events, panicAt,
                 calls, hist, fsops>>

\* ServeHTTP up to the call of the page handler: the deadline is derived,
\* the writer is wrapped
Begin(r) ==
    /\ tmgr.kind \in {"embed", "fs"}
    /\ pc[r] = "idle"
    /\ pc' = [pc EXCEPT ![r] = "handler"]
    /\ ctx' = [ctx EXCEPT ![r] = WithTimeout]
    /\ capW' = [capW EXCEPT ![r] = 0]
    /\ UNCHANGED <<disk, readable, tmgr, cancels, ncalls, ret, gt, lk, events, panicAt, calls,
                 hist, fsops>>

\* the page handler calls WriteHeader(code) on the writer it was given
HandlerWriteHeaderShared(r, code) ==
    /\ pc[r] = "handler"
    /\ ncalls[r] < MaxHandlerCalls
    /\ ncalls' = [ncalls EXCEPT ![r] = @ + 1]
    /\ capW' = [q \in Requests |-> CapturerStatus(capW[q], code)]
    /\ events' = [events EXCEPT ![r] = Append(@, Ev("WriteHeader", "handler", code, <<>>, <<>>, ""))]
    /\ UNCHANGED <<disk, readable, tmgr, pc, ctx, cancels, ret, gt, lk, panicAt, calls, hist,
                 fsops>>

HandlerWriteHeader(r, code) ==
    /\ pc[r] = "handler"
    /\ ncalls[r] < MaxHandlerCalls
    /\ ncalls' = [ncalls EXCEPT ![r] = @ + 1]
    /\ capW' = [capW EXCEPT ![r] = CapturerStatus(@, code)]
    /\ events' = [events EXCEPT ![r] = Append(@, Ev("WriteHeader", "handler", code, <<>>, <<>>, ""))]
    /\ UNCHANGED <<disk, readable, tmgr, pc, ctx, cancels, ret, gt, lk, panicAt, calls, hist,
                 fsops>>

\* the page handler writes body bytes; Write is not intercepted
HandlerWrite(r) ==
    /\ pc[r] = "handler"
    /\ ncalls[r] < MaxHandlerCalls
    /\ ncalls' = [ncalls EXCEPT ![r] = @ + 1]
    /\ events' = [events EXCEPT ![r] = Append(@, Ev("Write", "handler", 0, <<>>, <<Lit("handler body")>>, ""))]
    /\ UNCHANGED <<disk, readable, tmgr, pc, ctx, cancels, capW, ret, gt, lk, panicAt, calls,
                 hist, fsops>>

\* Handler.Serve returns (t, data, err)
HandlerReturn(r, t, data, err) ==
    /\ pc[r] = "handler"
    /\ ret' = [ret EXCEPT ![r] = [t |-> t, data |-> data, err |-> err]]
    /\ pc' = [pc EXCEPT ![r] = "returned"]
    /\ UNCHANGED <<disk, readable, tmgr, ctx, cancels, capW, ncalls, gt, lk, events, panicAt,
                 calls, hist, fsops>>

\* ServeHTTP leaves, by return or by panic: the deferred cancel runs
LeaveWithoutDefer(r, how, where) ==
    /\ pc' = [pc EXCEPT ![r] = how]
    /\ panicAt' = [panicAt EXCEPT ![r] = where]
    /\ ctx' = [ctx EXCEPT ![r] = IF how = "done" THEN Cancelled ELSE @]
    /\ cancels' = [cancels EXCEPT ![r] = IF how = "done" THEN @ + 1 ELSE @]

Leave(r, how, where) ==
    /\ pc' = [pc EXCEPT ![r] = how]
    /\ panicAt' = [panicAt EXCEPT ![r] = where]
    /\ ctx' = [ctx EXCEPT ![r] = Cancelled]
    /\ cancels' = [cancels EXCEPT ![r] = @ + 1]

\* the page handler calls WriteHeader(0): the capturer records the code and
\* forwards it, and the underlying writer panics on the invalid code
HandlerWriteHeaderZero(r) ==
    /\ pc[r] = "handler"
    /\ ncalls[r] < MaxHandlerCalls
    /\ ncalls' = [ncalls EXCEPT ![r] = @ + 1]
    /\ capW' = [capW EXCEPT ![r] = CapturerStatus(@, 0)]
    /\ events' = [events EXCEPT ![r] = Append(@, Ev("WriteHeader", "handler", 0, <<>>, <<>>, ""))]
    /\ Leave(r, "aborted", "WriteHeader")
    /\ UNCHANGED <<disk, readable, tmgr, ret, gt, lk, calls, hist, fsops>>

\* the page handler panics
HandlerPanic(r) ==
    /\ pc[r] = "handler"
    /\ Leave(r, "aborted", "Handler.Serve")
    /\ UNCHANGED <<disk, readable, tmgr, capW, ncalls, ret, gt, lk, events, calls, hist, fsops>>

\* the record of one handleError call: its error, what it returned, whether
\* it aborted, and the events it appended to w
CallRecord(w, err, he) ==
    [err |-> err, stop |-> he.stop, panicked |-> he.panicked,
     added |-> SubSeq(he.w, Len(w) + 1, Len(he.w))]

\* gt := t.direct is used when it is not nil
HasDirectUnlessNamed(t) == t.direct # NilHandle /\ t.named = <<>>

HasDirect(t) == t.direct # NilHandle

\* ServeHTTP after the handler returned: handleError on the handler's error,
\* then the capture flag, then t.direct
ServeAfterHandler(r, o) ==
    /\ pc[r] = "returned"
    /\ LET he == handleError(events[r], ret[r].err, <<>>, o)
       IN /\ events' = [events EXCEPT ![r] = he.w]
          /\ calls' = [calls EXCEPT ![r] = Append(@, CallRecord(events[r], ret[r].err, he))]
          /\ IF he.panicked THEN Leave(r, "panic", "writeBasicErrorResponse") /\ gt' = gt
             ELSE IF he.stop THEN Leave(r, "done", "") /\ gt' = gt
             ELSE IF CaptureFlag(capW[r]) THEN Leave(r, "done", "") /\ gt' = gt
             ELSE IF ret[r].t.nil THEN Leave(r, "panic", "t.direct") /\ gt' = gt
             ELSE IF HasDirect(ret[r].t)
             THEN /\ gt' = [gt EXCEPT ![r] = ret[r].t.direct]
                  /\ pc' = [pc EXCEPT ![r] = "execute"]
                  /\ UNCHANGED <<ctx, cancels, panicAt>>
             ELSE /\ gt' = gt
                  /\ pc' = [pc EXCEPT ![r] = "lookup"]
                  /\ UNCHANGED <<ctx, cancels, panicAt>>
    /\ UNCHANGED <<disk, readable, tmgr, capW, ncalls, ret, lk, hist, fsops>>

\* gt, err = tm.Templates.LookupTemplate(t.named), then handleError on err
ServeLookup(r, o) ==
    /\ pc[r] = "lookup"
    /\ LET found == LookupTemplate(ret[r].t.named)
           w1 == Append(events[r], Ev("Lookup", "ServeHTTP", 0, ret[r].t.named, <<>>,
                                      IF found.err = NilErr THEN "found" ELSE ErrorMsg(found.err)))
           he == handleError(w1, found.err, <<>>, o)
       IN /\ events' = [events EXCEPT ![r] = he.w]
          /\ calls' = [calls EXCEPT ![r] = Append(@, CallRecord(w1, found.err, he))]
          /\ gt' = [gt EXCEPT ![r] = found.handle]
          /\ IF he.panicked THEN Leave(r, "panic", "writeBasicErrorResponse")
             ELSE IF he.stop THEN Leave(r, "done", "")
             ELSE /\ pc' = [pc EXCEPT ![r] = "execute"]
                  /\ UNCHANGED <<ctx, cancels, panicAt>>
    /\ UNCHANGED <<disk, readable, tmgr, capW, ncalls, ret, lk, hist, fsops>>

\* tm.handleError(w, gt.Execute(w, data), tm.Logger)
ServeExecute(r, o, o2) ==
    /\ pc[r] = "execute"
    /\ LET x == Execute(events[r], "ServeHTTP", gt[r], ret[r].data, NilErr, o)
           he == handleError(x.w, x.err, <<>>, o2)
       IN /\ events' = [events EXCEPT ![r] = he.w]
          /\ calls' = [calls EXCEPT ![r] = Append(@, CallRecord(x.w, x.err, he))]
          /\ IF he.panicked THEN Leave(r, "panic", "writeBasicErrorResponse")
             ELSE Leave(r, "done", "")
    /\ UNCHANGED <<disk, readable, tmgr, capW, ncalls, ret, gt, lk, hist, fsops>>

Next ==
    \/ NewTemplateManagerEmbed
    \/ NewTemplateManagerFS
    \/ \E r \in Solo, name \in LookupNames : CallLookupTemplate(r, name)
    \/ \E r \in Solo : Begin(r)
    \/ \E r \in Solo, code \in HandlerCodes : HandlerWriteHeader(r, code)
    \/ \E r \in Solo : HandlerWriteHeaderZero(r)
    \/ \E r \in Solo : HandlerWrite(r)
    \/ \E r \in Solo : HandlerPanic(r)
    \/ \E r \in Solo, t \in HandlerTemplates, data \in HandlerData, err \in HandlerErrors :
          HandlerReturn(r, t, data, err)
    \/ \E r \in Solo, o \in ExecOutcomes : ServeAfterHandler(r, o)
    \/ \E r \in Solo, o \in ExecOutcomes : ServeLookup(r, o)
    \/ \E r \in Solo, o \in ExecOutcomes, o2 \in ExecOutcomes : ServeExecute(r, o, o2)

Spec == Init /\ [][Next]_vars

----------------------------------------------------------------------------
(* The source directory changes while a manager is in use *)

\* the names looked up in these runs
ReloadNames == {NameHome, Name404}

\* a file of the source directory is written, replaced or removed
ChangeFile(n, c) ==
    /\ fsops < MaxFsOps
    /\ c # disk[n]
    /\ disk' = [disk EXCEPT ![n] = c]
    /\ fsops' = fsops + 1
    /\ UNCHANGED <<readable, tmgr, pc, ctx, cancels, capW, ncalls, ret, gt, lk, events,
                 panicAt, calls, hist>>

\* the source directory stops or starts being listable
ChangeDir ==
    /\ fsops < MaxFsOps
    /\ readable' = ~readable
    /\ fsops' = fsops + 1
    /\ UNCHANGED <<disk, tmgr, pc, ctx, cancels, capW, ncalls, ret, gt, lk, events,
                 panicAt, calls, hist>>

\* one more tm.LookupTemplate(name) on the manager that was constructed
LookupAgain(name) ==
    /\ tmgr.kind \in {"embed", "fs"}
    /\ Len(hist) <= MaxLookups
    /\ hist' = Append(hist, HistRecord("lookup", tmgr, name, LookupTemplate(name)))
    /\ UNCHANGED <<disk, readable, tmgr, pc, ctx, cancels, capW, ncalls, ret, gt, lk, events,
                 panicAt, calls, fsops>>

NextFS ==
    \/ NewTemplateManagerEmbed
    \/ NewTemplateManagerFS
    \/ \E n \in FileNames : \E c \in FileContents(n) : ChangeFile(n, c)
    \/ ChangeDir
    \/ \E name \in ReloadNames : LookupAgain(name)

SpecFS == Init /\ [][NextFS]_vars

----------------------------------------------------------------------------
(* Vocabulary of the properties *)

\* ServeHTTP has left, by return or by panic
Finished(r) == pc[r] \in {"done", "panic"}
\* ServeHTTP is past its first handleError call and the capture-flag test
PastHandler(r) == pc[r] \in {"lookup", "execute", "done", "panic"}

MiddlewareEvents(r) == SelectSeq(events[r], LAMBDA e : e.by # "handler")
\* the WriteHeader calls that reached the underlying writer
StatusWrites(r) == SelectSeq(events[r], LAMBDA e : e.op = "WriteHeader")
\* the writes of status or body made by the middleware
MiddlewareWrites(r) ==
    SelectSeq(events[r], LAMBDA e : e.by # "handler" /\ e.op \in {"WriteHeader", "Write"})
HandlerWroteStatus(r) ==
    \E i \in DOMAIN events[r] : events[r][i].op = "WriteHeader" /\ events[r][i].by = "handler"

RECURSIVE BodyOf(_)
BodyOf(evs) ==
    IF evs = <<>> THEN <<>>
    ELSE (IF Head(evs).op = "Write" THEN Head(evs).text ELSE <<>>) \o BodyOf(Tail(evs))
\* the bytes of the response body, in order
ResponseBody(r) == BodyOf(events[r])

\* where a written status or body comes from
SourceOf(e) ==
    CASE e.by = "handler" -> "handler's own writes"
      [] e.by = "ServeHTTP" -> "executed template"
      [] e.by = "writeBasicErrorResponse" -> "plain-text fallback"
      [] OTHER -> "templated error page"
\* output of an execution that failed half way is none of the four
CutShort(e) == e.op = "Write" /\ \E i \in DOMAIN e.text : e.text[i].k = "partial"
OutputSources(r) ==
    {SourceOf(events[r][i]) : i \in {j \in DOMAIN events[r] :
        \/ events[r][j].op = "Write" /\ ~CutShort(events[r][j])
        \/ events[r][j].op = "WriteHeader" /\ events[r][j].by = "handler"}}
\* status lines of the response: the handler's, and each WriteHeader call of
\* the middleware
StatusLines(r) ==
    (IF HandlerWroteStatus(r) THEN 1 ELSE 0)
        + Len(SelectSeq(events[r], LAMBDA e : e.op = "WriteHeader" /\ e.by # "handler"))

\* The directory as the documentation describes it: the files whose names
\* have neither '#' nor '~', parsed as one set together with the root "app".
HasHashOrTilde(n) == \E i \in DOMAIN n : n[i] = 35 \/ n[i] = 126
Visible == {n \in FileNames : disk[n] # "absent" /\ ~HasHashOrTilde(n)}
SetParses == readable /\ Visible # {} /\ \A n \in Visible : disk[n] = "good"
Resolvable(n) == SetParses /\ n \in Visible \cup {<<97, 112, 112>>}

\* the status an error declares: that of the first ErrorResponse of its
\* chain, 500 without one
DeclaresStatus(err) == \E i \in DOMAIN err : err[i].resp
FirstResponse(err) ==
    err[CHOOSE i \in DOMAIN err : err[i].resp /\ \A j \in 1..(i - 1) : ~err[j].resp]
ExpectedStatus(err) == IF DeclaresStatus(err) THEN FirstResponse(err).status ELSE 500
\* "<status>.html", written out
StatusFile(status) ==
    CASE status = 302 -> <<51, 48, 50, 46, 104, 116, 109, 108>>
      [] status = 403 -> <<52, 48, 51, 46, 104, 116, 109, 108>>
      [] status = 404 -> <<52, 48, 52, 46, 104, 116, 109, 108>>
      [] status = 500 -> <<53, 48, 48, 46, 104, 116, 109, 108>>
      [] OTHER -> <<>>
\* the error that a handleError call of request r was given: the handler's
\* error if there is one, else a lookup or execution error (none declares a status)
RoutedStatus(r) == IF ret[r].err # NilErr THEN ExpectedStatus(ret[r].err) ELSE 500

----------------------------------------------------------------------------
(* C1..C10 *)

\* C1 (as claimed): a request that returned has at most one status line
\* (the handler's or one WriteHeader of the middleware, never both), and its
\* output comes from exactly one of the handler, the templated error page,
\* the plain-text fallback and the successfully executed template.
C1_OneStatusLineOneSource ==
    \A r \in Requests :
        pc[r] = "done" =>
            /\ StatusLines(r) <= 1
            /\ Cardinality(OutputSources(r)) = 1

\* C2 (as claimed): once an error was routed to handleError, ServeHTTP
\* returns normally with a response body written; the flow never aborts
\* inside handleError or writeBasicErrorResponse.
C2_ErrorPathNeverAborts ==
    \A r \in Requests :
        (\E i \in DOMAIN events[r] : events[r][i].by = "handleError") =>
            /\ pc[r] = "done"
            /\ panicAt[r] = ""
            /\ \E i \in DOMAIN events[r] :
                  events[r][i].op = "Write" /\ events[r][i].by # "handler"

\* C3 (as claimed): when the handler wrote a status itself, the middleware
\* writes nothing, whatever the handler returned.
C3_NoWriteAfterHandlerStatus ==
    \A r \in Requests : HandlerWroteStatus(r) => MiddlewareWrites(r) = <<>>

C5_StatusFromErrorResponse ==
    \A r \in Requests :
        /\ (PastHandler(r) /\ ret[r].err # NilErr) =>
              \E i \in DOMAIN events[r] :
                  events[r][i].op = "WriteHeader" /\ events[r][i].by = "handleError"
        /\ \A i \in DOMAIN events[r] :
              (events[r][i].op = "WriteHeader" /\ events[r][i].by = "handleError") =>
                  /\ events[r][i].code = RoutedStatus(r)
                  /\ i + 2 <= Len(events[r])
                  /\ events[r][i + 1].op = "Log"
                  /\ events[r][i + 1].info = (IF RoutedStatus(r) < 400 THEN "info" ELSE "warn")
                  /\ events[r][i + 2].op = "Lookup"
                  /\ events[r][i + 2].name = StatusFile(RoutedStatus(r))

C5_Witness ==
    \E r \in Requests :
        /\ Finished(r)
        /\ ret[r].err = Wrap("handler: %w", RespErr(403, "forbidden"))
        /\ \E i \in DOMAIN events[r] :
              /\ events[r][i].op = "WriteHeader"
              /\ events[r][i].by = "handleError"
              /\ events[r][i].code = 403

\* C6 (as claimed): when the handler returned an error declaring status S
\* and "S.html" cannot be resolved, the response has status S and its body
\* is exactly the error's message and one newline.
C6_FallbackStatusAndBody ==
    \A r \in Requests :
        (/\ pc[r] = "done"
         /\ DeclaresStatus(ret[r].err)
         /\ ~Resolvable(StatusFile(ExpectedStatus(ret[r].err)))) =>
            /\ Len(StatusWrites(r)) = 1
            /\ StatusWrites(r)[1].code = ExpectedStatus(ret[r].err)
            /\ ResponseBody(r) = <<Lit(FirstResponse(ret[r].err).msg), Newline>>

\* C7: a named descriptor, a nil error and no status from the handler, the
\* named template in the set: the middleware resolves it and executes it,
\* and when the execution succeeds it has made no WriteHeader call, has
\* written exactly the executed output and never entered the error path.
C7_NamedTemplateRendered ==
    \A r \in Requests :
        (/\ PastHandler(r)
         /\ ret[r].err = NilErr
         /\ ~HandlerWroteStatus(r)
         /\ ~ret[r].t.nil
         /\ ret[r].t.direct = NilHandle
         /\ Resolvable(ret[r].t.named)) =>
            LET mw == MiddlewareEvents(r)
                n == ret[r].t.named
            IN /\ pc[r] = "lookup" => mw = <<>>
               /\ pc[r] # "lookup" =>
                     /\ Len(mw) >= 1
                     /\ mw[1] = Ev("Lookup", "ServeHTTP", 0, n, <<>>, "found")
                     /\ gt[r].name = n
               /\ Finished(r) =>
                     /\ Len(mw) >= 2
                     /\ mw[2].op = "Execute" /\ mw[2].by = "ServeHTTP" /\ mw[2].name = n
                     /\ mw[2].info = "ok" =>
                           /\ pc[r] = "done"
                           /\ Len(mw) = 3
                           /\ mw[3] = Ev("Write", "ServeHTTP", 0, n,
                                         <<Rendered(n, ret[r].data, NilErr)>>, "")

C7_Witness ==
    \E r \in Requests :
        /\ pc[r] = "done"
        /\ ret[r] = [t |-> NamedTemplate(NameHome), data |-> "alice", err |-> NilErr]
        /\ ~HandlerWroteStatus(r)
        /\ Resolvable(NameHome)
        /\ Len(MiddlewareEvents(r)) = 3
        /\ MiddlewareEvents(r)[2].info = "ok"

\* C8: when the handler returned a non-nil error, ServeHTTP is over after
\* the error path: the descriptor's template is neither looked up nor
\* executed, and the only lookup is the one for "<status>.html".
C8_ErrorDiscardsDescriptor ==
    \A r \in Requests :
        (PastHandler(r) /\ ret[r].err # NilErr) =>
            /\ Finished(r)
            /\ gt[r] = NilHandle
            /\ \A i \in DOMAIN events[r] : events[r][i].by # "ServeHTTP"
            /\ Len(SelectSeq(events[r], LAMBDA e : e.op = "Lookup")) = 1
            /\ \A i \in DOMAIN events[r] :
                  events[r][i].op \in {"Lookup", "Execute"} =>
                      events[r][i].name = StatusFile(ExpectedStatus(ret[r].err))

C8_Witness ==
    \E r \in Requests :
        /\ Finished(r)
        /\ ret[r].err # NilErr
        /\ ret[r].t = NamedTemplate(NameHome)
        /\ Resolvable(NameHome)

\* C9: LookupTemplate never returns a nil handle with a nil error; an absent
\* name gives the not-found error naming it, a directory that cannot be
\* listed or parsed gives an error that is not the not-found error.
IsNotFound(err) == err # NilErr /\ err[1].msg = "cannot find template %s"

C9_LookupNeverNilNil ==
    \A r \in Requests :
        pc[r] = "looked" =>
            /\ lk[r].handle = NilHandle <=> lk[r].err # NilErr
            /\ Resolvable(lk[r].name) =>
                  /\ lk[r].err = NilErr
                  /\ ~lk[r].handle.nil
                  /\ lk[r].handle.name = lk[r].name
            /\ (SetParses /\ ~Resolvable(lk[r].name)) =>
                  /\ IsNotFound(lk[r].err)
                  /\ lk[r].err[1].arg = lk[r].name
            /\ ~SetParses => (lk[r].err # NilErr /\ ~IsNotFound(lk[r].err))

C9_Witness ==
    \E r \in Requests :
        /\ pc[r] = "looked"
        /\ tmgr.kind = "fs"
        /\ SetParses
        /\ lk[r].name = NameNope
        /\ IsNotFound(lk[r].err)

\* C10: the files handed to the parser are the listed entries without '#'
\* and '~' in their names, each joined to the source root, in listing order;
\* a name that remains resolves, a name with '#' or '~' never does.
PathName(path) == SubSeq(path, Len(SrcDir) + 2, Len(path))
ListingIndex(n) ==
    CHOOSE k \in DOMAIN ReadDir(disk, readable).files : ReadDir(disk, readable).files[k] = n

C10_FilteredFilesParsed ==
    \A r \in Requests :
        (pc[r] = "looked" /\ readable) =>
            /\ Len(lk[r].files) = Cardinality(Visible)
            /\ \A i \in DOMAIN lk[r].files :
                  /\ PathName(lk[r].files[i]) \in Visible
                  /\ lk[r].files[i] = SrcDir \o <<47>> \o PathName(lk[r].files[i])
            /\ \A i, j \in DOMAIN lk[r].files :
                  i < j => ListingIndex(PathName(lk[r].files[i]))
                              < ListingIndex(PathName(lk[r].files[j]))
            /\ (SetParses /\ lk[r].name \in Visible) =>
                  (lk[r].err = NilErr /\ lk[r].handle.name = lk[r].name)
            /\ HasHashOrTilde(lk[r].name) =>
                  (lk[r].handle = NilHandle /\ lk[r].err # NilErr)

C10_Witness ==
    \E r \in Requests :
        /\ pc[r] = "looked"
        /\ disk[NameBackup] = "good"
        /\ disk[NameAutosave] = "bad"
        /\ lk[r].name = NameBackup
        /\ Len(lk[r].files) >= 2
        /\ lk[r].handle = NilHandle

----------------------------------------------------------------------------
(* C13..C17, C20 *)

\* ServeHTTP has left: by return, by a panic of its own, or by a panic of the handler
Exited(r) == pc[r] \in {"done", "panic", "aborted"}

\* C13 (as claimed): a handleError call given a non-nil error returns
\* "stop", whichever branch it takes (status template rendered, template
\* missing, template execution failed); a call given a nil error returns
\* "do not stop" and makes no status write, body write, log or lookup.
C13_StopIffError ==
    \A r \in Requests :
        \A i \in DOMAIN calls[r] :
            /\ calls[r][i].err = NilErr =>
                  /\ ~calls[r][i].stop
                  /\ ~calls[r][i].panicked
                  /\ calls[r][i].added = <<>>
            /\ calls[r][i].err # NilErr =>
                  /\ ~calls[r][i].panicked
                  /\ calls[r][i].stop

\* C14: in every handleError call with a non-nil error the first thing done
\* is the WriteHeader of the selected status, before the lookup and before
\* any body byte, and no second WriteHeader follows, whichever of the
\* templated page and the fallback is written.
C14_StatusBeforeBody ==
    \A r \in Requests :
        \A i \in DOMAIN calls[r] :
            calls[r][i].err # NilErr =>
                LET a == calls[r][i].added
                IN /\ Len(a) >= 3
                   /\ a[1].op = "WriteHeader"
                   /\ a[1].code = ExpectedStatus(calls[r][i].err)
                   /\ \A k \in 2..Len(a) : a[k].op # "WriteHeader"
                   /\ \E k \in 2..Len(a) : a[k].op = "Lookup"

C14_Witness ==
    \E r \in Requests :
        \E i \in DOMAIN calls[r] :
            /\ calls[r][i].err = RespErr(404, "not found")
            /\ calls[r][i].added[1].code = 404
            /\ \E k \in DOMAIN calls[r][i].added :
                  /\ calls[r][i].added[k].op = "Write"
                  /\ calls[r][i].added[k].by = "handleError"
            /\ \E k \in DOMAIN calls[r][i].added :
                  calls[r][i].added[k].by = "writeBasicErrorResponse"

\* C15 (as claimed): every handleError call with a non-nil error of status S
\* looks up "S.html"; when the lookup fails it writes the plain-text
\* fallback; when it succeeds it executes the template with the error value
\* as data and writes the fallback exactly when that execution fails.
FallbackWritten(a) == \E k \in DOMAIN a : a[k].by = "writeBasicErrorResponse"

C15_FallbackChain ==
    \A r \in Requests :
        \A i \in DOMAIN calls[r] :
            calls[r][i].err # NilErr =>
                LET a == calls[r][i].added
                IN /\ Len(a) >= 3
                   /\ a[3].op = "Lookup"
                   /\ a[3].name = StatusFile(ExpectedStatus(calls[r][i].err))
                   /\ a[3].info # "found" => FallbackWritten(a)
                   /\ a[3].info = "found" =>
                         /\ Len(a) >= 4
                         /\ a[4].op = "Execute" /\ a[4].name = a[3].name
                         /\ FallbackWritten(a) <=> a[4].info # "ok"
                         /\ \A k \in DOMAIN a :
                               (a[k].op = "Write" /\ a[k].by = "handleError") =>
                                   a[k].text[1].d # NilErr

\* C16: with a nil error and no status from the handler, a descriptor with
\* a direct handle is executed as it is and ServeHTTP makes no lookup, name
\* or not; a descriptor without one is looked up by its name, and when that
\* lookup fails no descriptor template is executed.
C16_DirectBeforeNamed ==
    \A r \in Requests :
        (/\ PastHandler(r)
         /\ ret[r].err = NilErr
         /\ ~HandlerWroteStatus(r)
         /\ ~ret[r].t.nil) =>
            LET mw == MiddlewareEvents(r)
            IN IF ret[r].t.direct # NilHandle
               THEN /\ pc[r] # "lookup"
                    /\ gt[r] = ret[r].t.direct
                    /\ \A k \in DOMAIN mw : ~(mw[k].op = "Lookup" /\ mw[k].by = "ServeHTTP")
                    /\ Finished(r) =>
                          /\ Len(mw) >= 1
                          /\ mw[1].op = "Execute" /\ mw[1].by = "ServeHTTP"
                          /\ mw[1].name = ret[r].t.direct.name
               ELSE pc[r] # "lookup" =>
                    /\ Len(mw) >= 1
                    /\ mw[1].op = "Lookup" /\ mw[1].by = "ServeHTTP"
                    /\ mw[1].name = ret[r].t.named
                    /\ mw[1].info = "found" => gt[r].name = ret[r].t.named
                    /\ mw[1].info # "found" =>
                          /\ Finished(r)
                          /\ \A k \in DOMAIN mw :
                                ~(mw[k].op = "Execute" /\ mw[k].by = "ServeHTTP")

C16_Witness ==
    \E r \in Requests :
        /\ pc[r] = "done"
        /\ ret[r].t = NamedAndDirect
        /\ ret[r].err = NilErr
        /\ ~HandlerWroteStatus(r)
        /\ MiddlewareEvents(r)[1].op = "Execute"
        /\ MiddlewareEvents(r)[1].name = <<100>>

\* C17: while the handler and the rendering run, the request carries the
\* context with the 10 second deadline and cancel has not run; once
\* ServeHTTP has left, by any return or by a panic of the handler or of the
\* rendering, cancel has run exactly once.
C17_CancelOnEveryExit ==
    \A r \in Requests :
        /\ pc[r] \in {"idle", "looked"} => (ctx[r].state = "none" /\ cancels[r] = 0)
        /\ pc[r] \in {"handler", "returned", "lookup", "execute"} =>
              (ctx[r].state = "armed" /\ ctx[r].timeout = 10 /\ cancels[r] = 0)
        /\ Exited(r) => (ctx[r].state = "cancelled" /\ cancels[r] = 1)

C17_Witness ==
    \E r \in Requests :
        /\ pc[r] = "panic"
        /\ panicAt[r] = "writeBasicErrorResponse"
        /\ cancels[r] = 1

\* C20: the capturer holds the last code the handler passed to WriteHeader
\* (0 when it passed none), each such call having reached the writer; after
\* the handler returned the flag is set exactly when the handler called
\* WriteHeader with a non-zero code; a handler that wrote only body bytes
\* leaves it unset and ServeHTTP goes on to resolve and render; the status
\* writes of the middleware never set it.
HandlerStatusCodes(r) ==
    SelectSeq(events[r], LAMBDA e : e.op = "WriteHeader" /\ e.by = "handler")
LastHandlerCode(r) ==
    IF HandlerStatusCodes(r) = <<>> THEN 0
    ELSE HandlerStatusCodes(r)[Len(HandlerStatusCodes(r))].code

----------------------------------------------------------------------------
(* Two requests served at the same time by one middleware *)

\* the page handlers of these runs: they write a 302 or body bytes and
\* return the home page, or a 404 error, or both a status and an error
SharedCodes == {302}
SharedTemplates == {NamedTemplate(NameHome)}
SharedData == {"alice"}
SharedErrors == {NilErr, RespErr(404, "not found")}

InitShared ==
    /\ Init
    /\ readable
    /\ disk[NameHome] = "good"
    /\ \A n \in FileNames \ {NameHome, Name404} : disk[n] = "absent"

NextShared ==
    \/ NewTemplateManagerEmbed
    \/ NewTemplateManagerFS
    \/ \E r \in Requests : Begin(r)
    \/ \E r \in Requests, code \in SharedCodes : HandlerWriteHeader(r, code)
    \/ \E r \in Requests : HandlerWrite(r)
    \/ \E r \in Requests, t \in SharedTemplates, data \in SharedData, err \in SharedErrors :
          HandlerReturn(r, t, data, err)
    \/ \E r \in Requests, o \in ExecOutcomes : ServeAfterHandler(r, o)
    \/ \E r \in Requests, o \in ExecOutcomes : ServeLookup(r, o)
    \/ \E r \in Requests, o \in ExecOutcomes, o2 \in ExecOutcomes : ServeExecute(r, o, o2)

SpecShared == InitShared /\ [][NextShared]_vars

----------------------------------------------------------------------------
(* C11, C12, C18 *)

\* The documented reading of a directory d: the files whose names have
\* neither '#' nor '~', parsed as one set together with the root "app".
VisibleIn(d) == {n \in FileNames : d[n] # "absent" /\ ~HasHashOrTilde(n)}
SetParsesIn(d, canRead) ==
    canRead /\ VisibleIn(d) # {} /\ \A n \in VisibleIn(d) : d[n] = "good"
ResolvableIn(d, canRead, n) ==
    SetParsesIn(d, canRead) /\ n \in VisibleIn(d) \cup {<<97, 112, 112>>}

NotFoundFor(err, name) == IsNotFound(err) /\ err[1].arg = name

Lookups == {i \in DOMAIN hist : hist[i].op = "lookup"}

\* C11: the embedded manager's set is the one parsed by the constructor,
\* once: every lookup finds the set as the constructor left it, resolves a
\* name exactly when the directory as it was at construction had it, and
\* two lookups of one name return the same handle and the same error,
\* whatever happened to the directory since.
C11_EmbedParsedOnce ==
    (hist # <<>> /\ hist[1].kind = "embed") =>
        /\ tmgr.cachedTemplates = hist[1].set
        /\ \A i \in DOMAIN hist : i > 1 => hist[i].op = "lookup"
        /\ \A i \in Lookups :
              /\ hist[i].set = hist[1].set
              /\ hist[i].err = NilErr <=>
                    ResolvableIn(hist[1].dir, hist[1].canRead, hist[i].name)
              /\ hist[i].err # NilErr => NotFoundFor(hist[i].err, hist[i].name)
        /\ \A i \in Lookups : \A j \in Lookups :
              hist[i].name = hist[j].name =>
                  (hist[i].handle = hist[j].handle /\ hist[i].err = hist[j].err)

C11_Witness ==
    /\ Len(hist) = 3
    /\ hist[1].kind = "embed"
    /\ hist[2].name = hist[3].name
    /\ hist[2].dir[hist[2].name] = "good"
    /\ hist[3].dir[hist[3].name] = "absent"
    /\ hist[2].handle = hist[3].handle
    /\ hist[3].err = NilErr

\* C12: each lookup of the filesystem manager answers for the directory as
\* it is at that lookup and for nothing else: it resolves the name exactly
\* when the directory then holds it in a set that parses, and a name absent
\* from a set that parses is not found; so a file added since construction
\* resolves and a file removed since is not found.
C12_FsLookupIsCurrent ==
    \A i \in Lookups :
        hist[i].kind = "fs" =>
            /\ hist[i].err = NilErr <=>
                  ResolvableIn(hist[i].dir, hist[i].canRead, hist[i].name)
            /\ hist[i].err = NilErr => hist[i].handle = Handle(hist[i].name, FALSE)
            /\ (/\ SetParsesIn(hist[i].dir, hist[i].canRead)
                /\ hist[i].name \notin VisibleIn(hist[i].dir)) =>
                  NotFoundFor(hist[i].err, hist[i].name)

C12_Witness ==
    /\ Len(hist) = 3
    /\ hist[1].kind = "fs"
    /\ hist[1].dir[NameHome] = "absent"
    /\ hist[2].name = NameHome /\ NotFoundFor(hist[2].err, NameHome)
    /\ hist[3].name = NameHome /\ hist[3].err = NilErr
    /\ hist[3].handle.name = NameHome

\* C18: a lookup of the filesystem manager fails for every name, and not
\* with "not found", when the directory cannot be listed or one of its
\* unfiltered files does not parse; when it can be listed and its unfiltered
\* files parse, no lookup fails otherwise than with "not found", whatever
\* the filtered files hold.  The embedded constructor returns an error and
\* no manager in exactly those failing cases.
SetBroken(d, canRead) ==
    \/ ~canRead
    \/ \E n \in FileNames : d[n] = "bad" /\ ~HasHashOrTilde(n)

C18_SetIsParseUnit ==
    /\ \A i \in Lookups :
          hist[i].kind = "fs" =>
              /\ SetBroken(hist[i].dir, hist[i].canRead) =>
                    /\ hist[i].err # NilErr
                    /\ hist[i].handle = NilHandle
                    /\ ~NotFoundFor(hist[i].err, hist[i].name)
              /\ SetParsesIn(hist[i].dir, hist[i].canRead) =>
                    \/ hist[i].err = NilErr
                    \/ NotFoundFor(hist[i].err, hist[i].name)
    /\ \A i \in DOMAIN hist :
          (hist[i].op = "new" /\ hist[i].kind \in {"embed", "failed"}) =>
              /\ SetBroken(hist[i].dir, hist[i].canRead) =>
                    (hist[i].kind = "failed" /\ hist[i].err # NilErr /\ Len(hist) = 1)
              /\ SetParsesIn(hist[i].dir, hist[i].canRead) =>
                    (hist[i].kind = "embed" /\ hist[i].err = NilErr)

C18_Witness ==
    /\ Len(hist) = 3
    /\ hist[1].kind = "fs"
    /\ hist[2].name = Name404 /\ hist[2].err = NilErr
    /\ hist[2].dir[NameAutosave] = "bad"
    /\ hist[3].name = Name404 /\ hist[3].err = ParseErr
    /\ hist[3].dir[Name404] = "good" /\ hist[3].dir[NameHome] = "bad"

----------------------------------------------------------------------------
(* C19 *)

\* what one ServeHTTP call holds: its locals, its writer and what it did
Local(r) ==
    <<pc[r], ctx[r], cancels[r], capW[r], ncalls[r], ret[r], gt[r], lk[r], events[r],
      panicAt[r], calls[r]>>

\* what the page handler of r did, and how the template executions of r went
HandlerScript(r) == SelectSeq(events[r], LAMBDA e : e.by = "handler")
ExecutionInfos(r) ==
    [i \in DOMAIN SelectSeq(events[r], LAMBDA e : e.op = "Execute") |->
        SelectSeq(events[r], LAMBDA e : e.op = "Execute")[i].info]

\* the flag of a request follows its own handler, and two requests whose
\* handlers did the same and whose templates executed the same end the same
OwnOutcome ==
    /\ \A r \in Requests : capW[r] = LastHandlerCode(r)
    /\ \A r \in Requests :
          (/\ PastHandler(r)
           /\ ret[r].err = NilErr
           /\ ~HandlerWroteStatus(r)
           /\ ~ret[r].t.nil) =>
              \/ pc[r] \in {"lookup", "execute"}
              \/ \E k \in DOMAIN events[r] : events[r][k].by = "ServeHTTP"
    /\ \A r \in Requests : \A q \in Requests :
          (/\ Finished(r) /\ Finished(q)
           /\ HandlerScript(r) = HandlerScript(q)
           /\ ret[r] = ret[q]
           /\ ExecutionInfos(r) = ExecutionInfos(q)) =>
              Local(r) = Local(q)

\* a step of one request leaves the other request, the manager and the
\* directory as they were
OwnStep ==
    \A r \in Requests :
        Local(r)' # Local(r) =>
            /\ \A q \in Requests \ {r} : Local(q)' = Local(q)
            /\ tmgr' = tmgr
            /\ disk' = disk /\ readable' = readable

\* C19: with two requests in flight on one middleware, every step of a
\* request changes only that request's flag, deadline and response and
\* leaves the manager alone; a request's flag is set by its own handler's
\* WriteHeader only, a request whose handler wrote no status is rendered
\* whatever the other handler wrote, and the outcome of a request is fixed
\* by what its own handler and its own template executions did.
C19_RequestsIndependent == []OwnOutcome /\ [][OwnStep]_vars

C19_Witness ==
    /\ pc["r1"] = "handler"
    /\ capW["r1"] = 302
    /\ pc["r2"] = "execute"
    /\ capW["r2"] = 0
    /\ gt["r2"].name = NameHome
    /\ ctx["r1"].state = "armed" /\ ctx["r2"].state = "armed"

====
